---- MODULE Spec2Model ----
(***************************************************************************)
(* Model of docs/ppt/build_vansh_tech_learnings_ppt.py: the deck builder.  *)
(*                                                                         *)
(* Lengths are EMU integers as python-pptx computes them (Inches, Pt).     *)
(* Inch literals are written in thousandths of an inch: Inches(13333) is   *)
(* the code's Inches(13.333).  Texts are the code's string literals with   *)
(* the non-ASCII punctuation (dashes, arrows, curly quotes, bullets)       *)
(* written in ASCII.                                                       *)
(***************************************************************************)
EXTENDS Integers, Sequences, FiniteSets, TLC

VARIABLES
    prs,        \* the in-memory Presentation of the running process
    pc,         \* position of the running process in __main__ / build()
    imgs,       \* filesystem: what is at IMG_DIR/<filename>, per expected filename
    outDir,     \* filesystem: what is at OUT_DIR
    outFile,    \* filesystem: content of OUT_FILE (<<>> when there is none)
    fileImgs,   \* the image files as they were when OUT_FILE was last written
    console,    \* lines the running process has printed
    saved,      \* the running process has written OUT_FILE
    exc,        \* the call whose exception ended the running process ("" when none)
    madeDir,    \* the running process has created OUT_DIR
    run,        \* number of the running invocation of the script
    bulletsArg  \* argument of the _add_bullets call under test (SpecBullets only)

vars == <<prs, pc, imgs, outDir, outFile, fileImgs, console, saved, exc, madeDir, run, bulletsArg>>

-----------------------------------------------------------------------------
\* Bounds

\* invocations of the script in one behaviour
MaxRuns == 2

\* longest bullet list handed to _add_bullets in SpecBullets
MaxBullets == 3

-----------------------------------------------------------------------------
\* Units (pptx.util)

\* double products that fall just below the exact integer: int(2.05 * 914400)
\* is 1874519 and int(4.1 * 914400) is 3749039
FloatShort == {2050, 4100}

\* Inches(m / 1000): int(inches * 914400); 914400 / 1000 = 4572 / 5
Inches(m) ==
    LET exact == (m * 4572) \div 5
    IN  IF m \in FloatShort THEN exact - 1 ELSE exact

Pt(n) == n * 12700

-----------------------------------------------------------------------------
\* Paths

ROOT == "ROOT"
OUT_DIR == ROOT \o "/docs/ppt"
IMG_DIR == OUT_DIR \o "/images"
OUT_FILE == OUT_DIR \o "/Vansh-Tech-Learnings.pptx"

\* Path.__truediv__
Join(dir, name) == dir \o "/" \o name

\* Path.name: the part after the last separator
PathName(path) ==
    LET seps == {i \in 1..Len(path) : SubSeq(path, i, i) = "/"}
        last == IF seps = {} THEN 0 ELSE CHOOSE i \in seps : \A j \in seps : j <= i
    IN  SubSeq(path, last + 1, Len(path))

\* the four filenames build() looks for
Filenames == {"01_tree_fixed.png", "02_audio_upload_fixed.png",
              "03_settings_simplified.png", "04_network_error_before.png"}

\* What can be at an image path: nothing, an image file python-pptx can read,
\* or something else (a directory, a file that is no image).
FileStates == {"absent", "image", "other"}

\* every call testing the path of the first image (imgs[0]) instead of its own
ExistsFirst(path) == imgs["01_tree_fixed.png"] # "absent"

\* Path.exists()
Exists(path) == imgs[PathName(path)] # "absent"

-----------------------------------------------------------------------------
\* Theme

NoColor == <<>>
WHITE == <<255, 255, 255>>
KHADI_BG == <<249, 246, 238>>
CARD_BG == <<255, 252, 245>>
INK == <<32, 33, 36>>
MUTED == <<110, 107, 101>>
SUVARNA == <<196, 151, 52>>
SUVARNA_DARK == <<140, 104, 26>>
CARD_LINE == <<235, 228, 212>>
PH_FILL == <<245, 239, 225>>
PH_LINE == <<224, 212, 190>>

-----------------------------------------------------------------------------
\* Shapes and text

\* a paragraph as text_frame.clear() leaves it
EmptyPara == [text |-> "", level |-> 0, size |-> 0, bold |-> FALSE,
              color |-> NoColor, align |-> ""]

\* a paragraph holding one run
Para(text, size, bold, color, align) ==
    [text |-> text, level |-> 0, size |-> size, bold |-> bold,
     color |-> color, align |-> align]

\* shapes.add_shape
AutoShape(kind, x, y, w, h, fill, line, lineW) ==
    [kind |-> kind, x |-> x, y |-> y, w |-> w, h |-> h, fill |-> fill,
     line |-> line, lineW |-> lineW, wrap |-> FALSE, paras |-> <<>>, image |-> ""]

\* shapes.add_textbox, with the paragraphs its text frame ends up with
Textbox(x, y, w, h, paras) ==
    [kind |-> "TEXTBOX", x |-> x, y |-> y, w |-> w, h |-> h, fill |-> NoColor,
     line |-> NoColor, lineW |-> 0, wrap |-> FALSE, paras |-> paras, image |-> ""]

\* shapes.add_picture with width and height given
Picture(path, x, y, w, h) ==
    [kind |-> "PICTURE", x |-> x, y |-> y, w |-> w, h |-> h, fill |-> NoColor,
     line |-> NoColor, lineW |-> 0, wrap |-> FALSE, paras |-> <<>>, image |-> path]

-----------------------------------------------------------------------------
\* Helpers.  Each takes the slide's shape sequence and returns it extended.

\* _add_header: top band, title, and the subtitle when one is given
AddHeader(shapes, title, subtitle) ==
    LET band == AutoShape("RECTANGLE", Inches(0), Inches(0), Inches(13333),
                          Inches(1100), SUVARNA, NoColor, 0)
        t == Textbox(Inches(700), Inches(220), Inches(12000), Inches(500),
                     <<Para(title, Pt(30), TRUE, WHITE, "")>>)
        s == Textbox(Inches(700), Inches(700), Inches(12000), Inches(350),
                     <<Para(subtitle, Pt(14), FALSE, WHITE, "")>>)
    IN  shapes \o <<band, t>> \o (IF subtitle # "" THEN <<s>> ELSE <<>>)

\* _add_card
AddCard(shapes, x, y, w, h) ==
    Append(shapes, AutoShape("ROUNDED_RECTANGLE", x, y, w, h, CARD_BG, CARD_LINE, Pt(1)))

\* the loop with "first" never cleared: every bullet lands in the paragraph
\* clear() left
BulletLoopFirstOnly(paras, bullets, first) ==
    IF bullets = <<>> THEN paras
    ELSE [paras EXCEPT ![1] = [text |-> bullets[Len(bullets)], level |-> 0,
                               size |-> Pt(18), bold |-> FALSE, color |-> INK,
                               align |-> ""]]

\* the loop of _add_bullets: the first bullet takes the paragraph clear() left,
\* every later one a new paragraph
RECURSIVE BulletLoop(_, _, _)
BulletLoop(paras, bullets, first) ==
    IF bullets = <<>> THEN paras
    ELSE LET p == [text |-> Head(bullets), level |-> 0, size |-> Pt(18),
                   bold |-> FALSE, color |-> INK, align |-> ""]
         IN  BulletLoop(IF first THEN [paras EXCEPT ![1] = p] ELSE Append(paras, p),
                        Tail(bullets), FALSE)

\* _add_bullets
AddBullets(shapes, x, y, w, h, bullets) ==
    Append(shapes, [Textbox(x, y, w, h, BulletLoop(<<EmptyPara>>, bullets, TRUE))
                    EXCEPT !.wrap = TRUE])

\* _add_kpi
AddKpi(shapes, x, y, label, value, color) ==
    LET pill == AutoShape("ROUNDED_RECTANGLE", x, y, Inches(3600), Inches(950),
                          color, NoColor, 0)
        vb == Textbox(x + Inches(250), y + Inches(100), Inches(3200), Inches(450),
                      <<Para(value, Pt(22), TRUE, WHITE, "")>>)
        lb == Textbox(x + Inches(250), y + Inches(520), Inches(3200), Inches(350),
                      <<Para(label, Pt(12), FALSE, WHITE, "")>>)
    IN  shapes \o <<pill, vb, lb>>

\* shapes.add_picture raises unless the path holds an image it can read
AddPictureRaises(img_path) == imgs[PathName(img_path)] # "image"

\* _try_add_image raises exactly when it takes the picture branch and
\* add_picture raises there
TryAddImageRaises(img_path) == Exists(img_path) /\ AddPictureRaises(img_path)

\* the caption text box of _try_add_image
Caption(x, y, w, h, caption) ==
    Textbox(x, y + h + Inches(100), w, Inches(350),
            <<Para(caption, Pt(12), FALSE, MUTED, "CENTER")>>)

\* the placeholder with the instruction text but not the filename
PlaceholderNoName(img_path, x, y, w, h) ==
    <<AutoShape("ROUNDED_RECTANGLE", x, y, w, h, PH_FILL, PH_LINE, 0),
      Textbox(x + Inches(300), y + Inches(250), w - Inches(600), Inches(700),
              <<Para("Drop screenshot here:\n", Pt(14), FALSE, MUTED, "LEFT")>>)>>

\* the placeholder of _try_add_image: box and instruction text
Placeholder(img_path, x, y, w, h) ==
    <<AutoShape("ROUNDED_RECTANGLE", x, y, w, h, PH_FILL, PH_LINE, 0),
      Textbox(x + Inches(300), y + Inches(250), w - Inches(600), Inches(700),
              <<Para("Drop screenshot here:\n" \o PathName(img_path), Pt(14),
                     FALSE, MUTED, "LEFT")>>)>>

\* _try_add_image with the caption code indented into the else branch
TryAddImageCaptionInElse(shapes, img_path, x, y, w, h, caption) ==
    shapes
    \o (IF Exists(img_path) THEN <<Picture(img_path, x, y, w, h)>>
        ELSE Placeholder(img_path, x, y, w, h) \o <<Caption(x, y, w, h, caption)>>)

\* _try_add_image, when it returns
TryAddImage(shapes, img_path, x, y, w, h, caption) ==
    shapes
    \o (IF Exists(img_path) THEN <<Picture(img_path, x, y, w, h)>>
        ELSE Placeholder(img_path, x, y, w, h))
    \o <<Caption(x, y, w, h, caption)>>

\* _set_widescreen with the width mistyped as 13.33
SetWidescreenTypo(p) ==
    [p EXCEPT !.slide_width = Inches(13330), !.slide_height = Inches(7500)]

\* _set_widescreen
SetWidescreen(p) ==
    [p EXCEPT !.slide_width = Inches(13333), !.slide_height = Inches(7500)]

\* Presentation(): the default template, 4:3 (10in x 7.5in), no slides
NewPresentation ==
    [slide_width |-> Inches(10000), slide_height |-> Inches(7500), slides |-> <<>>]

\* add_slide putting the new slide first instead of last
AddSlideFront(p, color, shapes) ==
    [p EXCEPT !.slides = <<[bg |-> color, shapes |-> shapes]>> \o @]

\* prs.slides.add_slide(blank); _add_bg(s, color); then the slide's shapes
AddSlide(p, color, shapes) ==
    [p EXCEPT !.slides = Append(@, [bg |-> color, shapes |-> shapes])]

\* shapes appended to the slide build() is working on (the last one)
OnLastSlide(p, shapes) ==
    [p EXCEPT !.slides[Len(p.slides)].shapes = shapes]

LastShapes(p) == p.slides[Len(p.slides)].shapes

-----------------------------------------------------------------------------
\* build(): the shapes of each slide, in the order the code adds them

Slide1Shapes ==
    LET a == AddHeader(<<>>, "Vansh App - Technical Learnings",
                 "Debugging journey: Vriksha tree, API correctness, caching, and uploads")
        b == AddCard(a, Inches(800), Inches(1600), Inches(11800), Inches(2400))
        title == Textbox(Inches(1200), Inches(1950), Inches(11000), Inches(1600),
                     <<Para("From 'flat & wrong' -> correct, dynamic, production-ready",
                            Pt(34), TRUE, INK, "")>>)
        meta == Textbox(Inches(1200), Inches(3200), Inches(11000), Inches(600),
                     <<Para("React Native (Expo) * TypeScript * Express/MySQL * Graph layout algorithms",
                            Pt(16), FALSE, MUTED, "")>>)
    IN  b \o <<title, meta>>

Slide2Shapes ==
    LET a == AddHeader(<<>>, "System Overview", "Key pieces involved in the issues")
        b == AddCard(a, Inches(800), Inches(1500), Inches(6000), Inches(5600))
        c == Append(b, Textbox(Inches(1200), Inches(1750), Inches(5200), Inches(400),
                               <<Para("Frontend (Expo)", 0, FALSE, NoColor, "")>>))
        d == AddBullets(c, Inches(1200), Inches(2150), Inches(5200), Inches(4800),
                 <<"Vriksha: renders family tree layout + connectors",
                   "Katha: audio record -> multipart upload",
                   "Settings: simplified UX",
                   "State: Zustand stores + hooks">>)
        e == AddCard(d, Inches(7100), Inches(1500), Inches(5500), Inches(5600))
        f == Append(e, Textbox(Inches(7500), Inches(1750), Inches(4800), Inches(400),
                               <<Para("Backend (Express + MySQL)", 0, FALSE, NoColor, "")>>))
    IN  AddBullets(f, Inches(7500), Inches(2150), Inches(4800), Inches(4800),
                 <<"Members + Relationships endpoints",
                   "Relationship direction reversal per requester",
                   "Cache-control to avoid stale data (304)",
                   "DB constraints (ENUM) & normalization">>)

\* slide 3 up to the image calls
Slide3Head ==
    AddHeader(<<>>, "Observed Outputs", "What the app showed during debugging")

\* the note that closes slide 3
Slide3Note ==
    Textbox(Inches(900), Inches(6700), Inches(12500), Inches(500),
            <<Para("Screenshots auto-embed from docs/ppt/images (placeholders shown if missing).",
                   Pt(12), FALSE, MUTED, "")>>)

Slide4Shapes ==
    LET a == AddHeader(<<>>, "Challenges Encountered", "What broke and why it mattered")
        b == AddCard(a, Inches(800), Inches(1550), Inches(12000), Inches(5900))
    IN  AddBullets(b, Inches(1200), Inches(1950), Inches(11200), Inches(5400),
                 <<"Family tree rendered as a flat row (no hierarchy)",
                   "Tree appeared upside down (descendants at top)",
                   "No relationships persisted in DB -> 'Relationships found: 0'",
                   "Endpoint inconsistency: /members vs /members/:id/relationships returned different semantics",
                   "HTTP 304 caching caused stale relationship types on device",
                   "Audio upload failing ('Network request failed')">>)

Slide5Shapes ==
    LET a == AddHeader(<<>>, "Root Causes", "What the debugging proved")
        b == AddKpi(a, Inches(900), Inches(1650), "Data correctness",
                    "Relationships weren't saved", SUVARNA_DARK)
        c == AddKpi(b, Inches(4850), Inches(1650), "Semantics",
                    "Type reversal missing", SUVARNA_DARK)
        d == AddKpi(c, Inches(8800), Inches(1650), "Caching",
                    "304 returned stale graph", SUVARNA_DARK)
        e == AddCard(d, Inches(800), Inches(2800), Inches(12000), Inches(4700))
    IN  AddBullets(e, Inches(1200), Inches(3150), Inches(11200), Inches(4100),
                 <<"DB ENUM rejected detailed types like 'wife'/'son' -> insert error, orphan members created",
                   "getRelationships endpoint returned raw DB relationship_type (not reversed per requester)",
                   "Client cached responses; UI used old relationship direction/type",
                   "Tree can only be 'dynamic' if relationships are persisted + normalized and the graph is built from them">>)

\* slide 6 up to the image calls
Slide6Head ==
    LET a == AddHeader(<<>>, "Solutions Implemented", "Fixes across frontend, backend, and DB")
        b == AddCard(a, Inches(800), Inches(1550), Inches(12000), Inches(3200))
    IN  AddBullets(b, Inches(1200), Inches(1900), Inches(11200), Inches(2900),
                 <<"Graph layout: BFS generation leveling (parents gen-1, children gen+1, spouse same gen)",
                   "Backend: consistent relationship reversal in both endpoints",
                   "Backend: Cache-Control headers to prevent stale 304 behavior",
                   "Backend: map detailed relationship types -> base ENUM; store detailed in relationship_subtype",
                   "Frontend: audio upload fixed by not forcing multipart Content-Type (boundary required)">>)

Slide7Shapes ==
    LET a == AddHeader(<<>>, "Tree Layout Algorithm", "Normalized graph -> deterministic positioning")
        b == AddCard(a, Inches(800), Inches(1550), Inches(12000), Inches(5900))
    IN  AddBullets(b, Inches(1200), Inches(1950), Inches(11200), Inches(5300),
                 <<"Input: members + relationships (normalized: parent/child/spouse/sibling)",
                   "Build adjacency lists for each node (parents, children, spouses)",
                   "BFS from root: assign generations (Y levels) and normalize so minGen = 0",
                   "Create spouse 'family units' and compute subtree widths bottom-up",
                   "Assign X positions top-down using subtree widths (avoids overlap)",
                   "Render orthogonal connectors (married + parent-child)">>)

Slide8Shapes ==
    LET a == AddHeader(<<>>, "Key Technical Learnings", "What this taught me (practical takeaways)")
        b == AddCard(a, Inches(800), Inches(1550), Inches(12000), Inches(5900))
    IN  AddBullets(b, Inches(1200), Inches(1950), Inches(11200), Inches(5300),
                 <<"Data model first: UI correctness depends on persisted relationship truth",
                   "Normalize at the boundary: store base types + detailed subtype, not free-form strings",
                   "API symmetry matters: all endpoints must agree on semantics",
                   "Disable/handle caching during rapid iteration (304 can sabotage debugging)",
                   "Multipart uploads: never hardcode boundary Content-Type in React Native",
                   "Add logs where state transforms (DB -> API -> store -> layout)">>)

Slide9Shapes ==
    LET a == AddHeader(<<>>, "Next Improvements", "To make this production-hard")
        b == AddCard(a, Inches(800), Inches(1550), Inches(12000), Inches(5900))
    IN  AddBullets(b, Inches(1200), Inches(1950), Inches(11200), Inches(5300),
                 <<"Validate relationship creation server-side (reject cycles if desired)",
                   "Enforce uniqueness constraints per direction + subtype rules",
                   "Add integration tests for relationship semantics + reversal",
                   "Add optimistic UI updates after add-member + relationship POST",
                   "Add retry/backoff + clearer upload error details (status/body logging)">>)

\* The four _try_add_image calls of build(): where the process stands before
\* the call, the call's arguments, and where it stands after it returns.
ImageCalls ==
    {[at |-> "s3img1", filename |-> "01_tree_fixed.png",
      x |-> Inches(900), y |-> Inches(1600), w |-> Inches(6200), h |-> Inches(4900),
      caption |-> "Tree after fixes (dynamic leveling + spouse/child placement)",
      next |-> "s3img2"],
     [at |-> "s3img2", filename |-> "04_network_error_before.png",
      x |-> Inches(7300), y |-> Inches(1600), w |-> Inches(5100), h |-> Inches(4900),
      caption |-> "Example error state captured during testing",
      next |-> "s3note"],
     [at |-> "s6img1", filename |-> "02_audio_upload_fixed.png",
      x |-> Inches(900), y |-> Inches(4950), w |-> Inches(6200), h |-> Inches(2050),
      caption |-> "Katha upload working after multipart header fix",
      next |-> "s6img2"],
     [at |-> "s6img2", filename |-> "03_settings_simplified.png",
      x |-> Inches(7300), y |-> Inches(4950), w |-> Inches(5100), h |-> Inches(2050),
      caption |-> "Settings simplified to essentials",
      next |-> "s7"]}

-----------------------------------------------------------------------------
\* Filesystem and process

\* What can be at OUT_DIR: nothing, nothing and no way to create it (a parent
\* that cannot be written), a writable directory, a directory that cannot be
\* written, or something that is no directory.
DirStates == {"missing", "blocked", "dir", "readonly", "notdir"}

\* OUT_DIR.mkdir(parents=True, exist_ok=True) raises when the path exists and
\* is no directory, or when the directory cannot be created
MkdirRaises(d) == d \in {"notdir", "blocked"}

\* build() without the mkdir call: OUT_DIR stays as it was
MkdirNoCreate(d) == d

\* OUT_DIR after mkdir(parents=True, exist_ok=True) has returned
Mkdir(d) == IF d = "missing" THEN "dir" ELSE d

\* prs.save(str(OUT_FILE)) raises unless OUT_DIR is a directory it can write
SaveRaises(d) == d # "dir"

\* a save that opens the existing deck and adds the new slides to it
SaveDeckAppend(existing, p) ==
    IF existing = <<>> THEN p ELSE [p EXCEPT !.slides = existing.slides \o @]

\* OUT_FILE after prs.save: the deck, whatever the file held before
SaveDeck(existing, p) == p

\* __main__ swallowing the exception of build() and going on to print
PropagateSwallowed == "print"

\* build() and __main__ catch nothing: an exception ends the process
Propagate == "failed"

\* the process has ended: exit code 0, or an unhandled exception
Terminal == {"exit", "failed"}

Raise(site) ==
    /\ pc' = Propagate
    /\ exc' = site
    /\ UNCHANGED <<prs, imgs, outDir, outFile, fileImgs, console, saved, madeDir, run, bulletsArg>>

\* a step of build() that only extends the presentation
Step(from, to, p) ==
    /\ pc = from
    /\ pc' = to
    /\ prs' = p
    /\ UNCHANGED <<imgs, outDir, outFile, fileImgs, console, saved, exc, madeDir, run, bulletsArg>>

-----------------------------------------------------------------------------
\* Actions: build(), statement by statement, and __main__

DoSetWidescreen == Step("widescreen", "s1", SetWidescreen(prs))

Slide1 == Step("s1", "s2", AddSlide(prs, KHADI_BG, Slide1Shapes))

Slide2 == Step("s2", "s3", AddSlide(prs, KHADI_BG, Slide2Shapes))

Slide3Begin == Step("s3", "s3img1", AddSlide(prs, KHADI_BG, Slide3Head))

\* one of the four _try_add_image calls
TryAddImageCall ==
    \E c \in ImageCalls :
        /\ pc = c.at
        /\ LET img_path == Join(IMG_DIR, c.filename)
           IN  IF TryAddImageRaises(img_path)
               THEN Raise(c.at)
               ELSE Step(c.at, c.next,
                         OnLastSlide(prs, TryAddImage(LastShapes(prs), img_path,
                                                      c.x, c.y, c.w, c.h, c.caption)))

Slide3End == Step("s3note", "s4", OnLastSlide(prs, Append(LastShapes(prs), Slide3Note)))

Slide4 == Step("s4", "s5", AddSlide(prs, KHADI_BG, Slide4Shapes))

Slide5 == Step("s5", "s6", AddSlide(prs, KHADI_BG, Slide5Shapes))

Slide6Begin == Step("s6", "s6img1", AddSlide(prs, KHADI_BG, Slide6Head))

Slide7 == Step("s7", "s8", AddSlide(prs, KHADI_BG, Slide7Shapes))

Slide8 == Step("s8", "s9", AddSlide(prs, KHADI_BG, Slide8Shapes))

Slide9 == Step("s9", "mkdir", AddSlide(prs, KHADI_BG, Slide9Shapes))

\* OUT_DIR.mkdir(parents=True, exist_ok=True)
MakeOutDir ==
    /\ pc = "mkdir"
    /\ IF MkdirRaises(outDir)
       THEN Raise("mkdir")
       ELSE /\ outDir' = Mkdir(outDir)
            /\ madeDir' = (Mkdir(outDir) # outDir)
            /\ pc' = "save"
            /\ UNCHANGED <<prs, imgs, outFile, fileImgs, console, saved, exc, run, bulletsArg>>

\* prs.save(str(OUT_FILE))
Save ==
    /\ pc = "save"
    /\ IF SaveRaises(outDir)
       THEN Raise("save")
       ELSE /\ outFile' = SaveDeck(outFile, prs)
            /\ fileImgs' = imgs
            /\ saved' = TRUE
            /\ pc' = "print"
            /\ UNCHANGED <<prs, imgs, outDir, console, exc, madeDir, run, bulletsArg>>

\* print(f"Wrote: {OUT_FILE}"), after build() has returned
PrintWrote ==
    /\ pc = "print"
    /\ console' = Append(console, "Wrote: " \o OUT_FILE)
    /\ pc' = "exit"
    /\ UNCHANGED <<prs, imgs, outDir, outFile, fileImgs, saved, exc, madeDir, run, bulletsArg>>

\* The script is run again, after the user has put any of the image files in
\* place or taken them away.
Rerun ==
    /\ pc \in Terminal
    /\ run < MaxRuns
    /\ \E cfg \in [Filenames -> FileStates] : imgs' = cfg
    /\ run' = run + 1
    /\ prs' = NewPresentation
    /\ pc' = "widescreen"
    /\ console' = <<>>
    /\ saved' = FALSE
    /\ exc' = ""
    /\ madeDir' = FALSE
    /\ UNCHANGED <<outDir, outFile, fileImgs, bulletsArg>>

NoImages == [f \in Filenames |-> "absent"]

Init ==
    /\ prs = NewPresentation
    /\ pc = "widescreen"
    /\ imgs \in [Filenames -> FileStates]
    /\ outDir \in DirStates
    /\ outFile = <<>>
    /\ fileImgs = NoImages
    /\ console = <<>>
    /\ saved = FALSE
    /\ exc = ""
    /\ madeDir = FALSE
    /\ run = 1
    /\ bulletsArg = <<>>

Next ==
    \/ DoSetWidescreen
    \/ Slide1
    \/ Slide2
    \/ Slide3Begin
    \/ TryAddImageCall
    \/ Slide3End
    \/ Slide4
    \/ Slide5
    \/ Slide6Begin
    \/ Slide7
    \/ Slide8
    \/ Slide9
    \/ MakeOutDir
    \/ Save
    \/ PrintWrote
    \/ Rerun

Spec == Init /\ [][Next]_vars

-----------------------------------------------------------------------------
\* _add_bullets on its own: one call on a blank slide, for every bullet list
\* up to MaxBullets long

BulletStrings == {"", "B", "Katha: audio record\n-> multipart upload",
                  "State: Zustand stores + hooks"}

RECURSIVE SeqsUpTo(_, _)
SeqsUpTo(S, n) ==
    IF n = 0 THEN {<<>>}
    ELSE LET shorter == SeqsUpTo(S, n - 1)
         IN  shorter \cup {Append(q, e) : q \in shorter, e \in S}

InitBullets ==
    /\ prs = AddSlide(SetWidescreen(NewPresentation), KHADI_BG, <<>>)
    /\ pc = "call"
    /\ bulletsArg \in SeqsUpTo(BulletStrings, MaxBullets)
    /\ imgs = NoImages
    /\ outDir = "dir"
    /\ outFile = <<>>
    /\ fileImgs = NoImages
    /\ console = <<>>
    /\ saved = FALSE
    /\ exc = ""
    /\ madeDir = FALSE
    /\ run = 1

\* _add_bullets(s, x, y, w, h, bulletsArg), with the box build() uses on slide 7
CallAddBullets ==
    /\ pc = "call"
    /\ prs' = OnLastSlide(prs, AddBullets(LastShapes(prs), Inches(1200), Inches(1950),
                                          Inches(11200), Inches(5300), bulletsArg))
    /\ pc' = "returned"
    /\ UNCHANGED <<imgs, outDir, outFile, fileImgs, console, saved, exc, madeDir, run, bulletsArg>>

NextBullets == CallAddBullets

SpecBullets == InitBullets /\ [][NextBullets]_vars

-----------------------------------------------------------------------------
\* Reading a deck

\* text contains sub
Contains(text, sub) ==
    \E i \in 1..(Len(text) - Len(sub) + 1) : SubSeq(text, i, i + Len(sub) - 1) = sub

\* the header title of a slide: the text of the box _add_header puts second
SlideTitle(slide) == slide.shapes[2].paras[1].text

Titles(deck) == [i \in 1..Len(deck.slides) |-> SlideTitle(deck.slides[i])]

ShapeCounts(deck) == [i \in 1..Len(deck.slides) |-> Len(deck.slides[i].shapes)]

AtBox(s, c) == s.x = c.x /\ s.y = c.y /\ s.w = c.w /\ s.h = c.h

IsPicture(s) == s.kind = "PICTURE"

IsPlaceholderBox(s) == s.kind = "ROUNDED_RECTANGLE" /\ s.fill = PH_FILL

IsPlaceholderText(s) ==
    s.kind = "TEXTBOX" /\ Contains(s.paras[1].text, "Drop screenshot here:")

\* a picture of the call's file in the call's box
HasPicture(shapes, c) ==
    \E i \in 1..Len(shapes) :
        IsPicture(shapes[i]) /\ AtBox(shapes[i], c)
        /\ shapes[i].image = Join(IMG_DIR, c.filename)

\* a placeholder box in the call's box, followed by text naming the call's file
HasPlaceholder(shapes, c) ==
    \E i \in 1..(Len(shapes) - 1) :
        /\ IsPlaceholderBox(shapes[i]) /\ AtBox(shapes[i], c)
        /\ IsPlaceholderText(shapes[i + 1])
        /\ Contains(shapes[i + 1].paras[1].text, c.filename)

FitsSlide(s) ==
    /\ s.x >= 0
    /\ s.y >= 0
    /\ s.x + s.w <= Inches(13333)
    /\ s.y + s.h <= Inches(7500)

IsWidescreen(deck) ==
    deck.slide_width = Inches(13333) /\ deck.slide_height = Inches(7500)

ImageSites == {c.at : c \in ImageCalls}

\* the slide each image is designated for
DesignatedSlide(f) ==
    IF f \in {"01_tree_fixed.png", "04_network_error_before.png"} THEN 3 ELSE 6

-----------------------------------------------------------------------------
\* C2: every shape build() places on a slide has its bounding box within the
\* slide: x >= 0, y >= 0, x + w <= 13.333in, y + h <= 7.5in, whatever image
\* files are there.  (Fails: the note of slide 3 starts at 0.9in and is 12.5in
\* wide, so it ends at 13.4in.)
C2_AllShapesFit ==
    \A i \in 1..Len(prs.slides) :
        \A j \in 1..Len(prs.slides[i].shapes) : FitsSlide(prs.slides[i].shapes[j])

-----------------------------------------------------------------------------
\* the header titles of the nine slides, in build() order
ExpectedTitles ==
    <<"Vansh App - Technical Learnings", "System Overview", "Observed Outputs",
      "Challenges Encountered", "Root Causes", "Solutions Implemented",
      "Tree Layout Algorithm", "Key Technical Learnings", "Next Improvements">>

\* C3: whenever build() writes the output file, the deck written holds exactly
\* nine slides, in the order Title, System Overview, Observed Outputs,
\* Challenges Encountered, Root Causes, Solutions Implemented, Tree Layout
\* Algorithm, Key Technical Learnings, Next Improvements, whatever image files
\* are there.
C3_NineSlidesInOrder ==
    /\ pc = "save" => Titles(prs) = ExpectedTitles
    /\ outFile # <<>> => Titles(outFile) = ExpectedTitles

\* the second run has written its deck, with some image embedded and some missing
C3_Witness ==
    /\ run = 2 /\ saved /\ Len(outFile.slides) = 9
    /\ \E f, g \in Filenames : imgs[f] = "image" /\ imgs[g] = "absent"

-----------------------------------------------------------------------------
\* C5: the output directory is created if it is missing before the output
\* file is written; the write is never attempted, and never done, while the
\* directory does not exist; a directory that is already there is no error
\* (mkdir raises only for a path that is no directory or cannot be created).
C5_DirBeforeWrite ==
    /\ pc = "save" => outDir \in {"dir", "readonly"}
    /\ saved => outDir = "dir"
    /\ madeDir => outDir = "dir"
    /\ exc = "mkdir" => outDir \in {"notdir", "blocked"}

\* the process found no directory, created it and has written the file
C5_Witness == madeDir /\ saved /\ outDir = "dir"

-----------------------------------------------------------------------------
\* C6: the page is 13.333in x 7.5in from the first statement of build() on:
\* set before any slide is added, the same at every later step and in the
\* file written, whatever image files are there.
C6_Widescreen ==
    /\ pc # "widescreen" => IsWidescreen(prs)
    /\ Len(prs.slides) > 0 => IsWidescreen(prs)
    /\ outFile # <<>> => IsWidescreen(outFile)

\* a deck with an embedded picture has been written
C6_Witness ==
    saved /\ IsWidescreen(outFile) /\ \E f \in Filenames : imgs[f] = "image"

-----------------------------------------------------------------------------
\* C7: the confirmation line "Wrote: <output path>" is printed at most once
\* per run and only after the output file has been written; a run that ends
\* normally has printed it exactly once; a run in which a step of build()
\* raised has ended with that exception and has printed nothing.
C7_PrintOnceAfterSave ==
    /\ Len(console) <= 1
    /\ console # <<>> => saved /\ exc = "" /\ console[1] = "Wrote: " \o OUT_FILE
    /\ pc = "exit" => Len(console) = 1 /\ saved
    /\ exc # "" => pc = "failed" /\ console = <<>>
    /\ pc = "failed" => exc # ""

\* a second run has printed its line after writing the file
C7_Witness == run = 2 /\ pc = "exit" /\ Len(console) = 1 /\ saved

-----------------------------------------------------------------------------
\* C1 (as claimed): for each of the four filenames, if anything is at the
\* expected path, build() completes and the deck holds a picture in that
\* image's box on its slide.  Stated for a run that did not fail on the
\* output directory: once it has ended, it ended normally and the file
\* written holds the picture.
C1_AnythingPresentIsEmbedded ==
    \A c \in ImageCalls :
        (pc \in Terminal /\ exc \notin {"mkdir", "save"} /\ imgs[c.filename] # "absent")
            => /\ pc = "exit"
               /\ HasPicture(outFile.slides[DesignatedSlide(c.filename)].shapes, c)

\* C1 (amended): in every deck build() writes, each of the four filenames has
\* its slot on its slide (01 and 04 on slide 3, 02 and 03 on slide 6): where a
\* readable image was at the path, a picture of it in the slot's box and no
\* placeholder there; where nothing was at the path, a placeholder box in the
\* slot's box followed by text containing the filename, and no picture there.
\* Where something that is no readable image is at the path, the call for
\* that slot raises and the run writes nothing.
C1_ImageOrPlaceholder ==
    /\ outFile # <<>> =>
        \A c \in ImageCalls :
            LET shapes == outFile.slides[DesignatedSlide(c.filename)].shapes
            IN  /\ fileImgs[c.filename] \in {"image", "absent"}
                /\ fileImgs[c.filename] = "image" =>
                       /\ HasPicture(shapes, c)
                       /\ ~ \E i \in 1..Len(shapes) :
                              IsPlaceholderBox(shapes[i]) /\ AtBox(shapes[i], c)
                /\ fileImgs[c.filename] = "absent" =>
                       /\ HasPlaceholder(shapes, c)
                       /\ ~ \E i \in 1..Len(shapes) :
                              IsPicture(shapes[i]) /\ AtBox(shapes[i], c)
    /\ \A c \in ImageCalls :
           /\ exc = c.at => imgs[c.filename] = "other" /\ ~saved
           /\ (imgs[c.filename] = "other" /\ pc \in Terminal) =>
                  pc = "failed" /\ exc \in ImageSites /\ ~saved

\* a deck has been written with a picture in one slot of slide 3 and a
\* placeholder in the other, and likewise on slide 6
C1_Witness ==
    /\ saved
    /\ imgs["01_tree_fixed.png"] = "image" /\ imgs["04_network_error_before.png"] = "absent"
    /\ imgs["02_audio_upload_fixed.png"] = "absent" /\ imgs["03_settings_simplified.png"] = "image"

-----------------------------------------------------------------------------
PlaceholderBoxes(deck) ==
    UNION {{<<i, j>> : j \in {k \in 1..Len(deck.slides[i].shapes) :
                                    IsPlaceholderBox(deck.slides[i].shapes[k])}} :
           i \in 1..Len(deck.slides)}

NoImageShape(deck) ==
    /\ Len(deck.slides) = 9
    /\ Cardinality(PlaceholderBoxes(deck)) = 4
    /\ \A c \in ImageCalls : HasPlaceholder(deck.slides[DesignatedSlide(c.filename)].shapes, c)
    /\ \A i \in 1..9 : \A j \in 1..Len(deck.slides[i].shapes) :
           ~IsPicture(deck.slides[i].shapes[j])

\* C4: every run with no image file present that writes the deck writes the
\* same deck shape, whatever the output file held before: 9 slides, the same number of shapes on each slide as the
\* deck an earlier such run left in the output file, exactly 4 placeholder
\* boxes, one per filename, each followed by text containing its filename.
C4_NoImagesSameShape ==
    /\ (outFile # <<>> /\ fileImgs = NoImages) => NoImageShape(outFile)
    /\ (pc = "save" /\ imgs = NoImages) =>
           /\ NoImageShape(prs)
           /\ (outFile # <<>> /\ fileImgs = NoImages) =>
                  ShapeCounts(prs) = ShapeCounts(outFile)
    /\ (saved /\ imgs = NoImages) => outFile = prs

\* the second run, with no images, has overwritten the deck of a first run
\* that had no images either
C4_Witness ==
    /\ run = 2 /\ saved /\ imgs = NoImages /\ fileImgs = NoImages
    /\ ShapeCounts(outFile) = <<6, 9, 10, 5, 14, 11, 5, 5, 5>>

-----------------------------------------------------------------------------
\* the last shape is the caption of call c: a text box with the image box's x
\* and width, starting 0.1in below it, carrying the caption string
EndsWithCaption(shapes, c) ==
    /\ shapes # <<>>
    /\ LET cap == shapes[Len(shapes)]
       IN  /\ cap.kind = "TEXTBOX"
           /\ cap.x = c.x /\ cap.w = c.w
           /\ cap.y = c.y + c.h + Inches(100)
           /\ cap.paras = <<Para(c.caption, Pt(12), FALSE, MUTED, "CENTER")>>

\* the shapes call c added hold exactly one text box carrying its caption
OneCaption(added, c) ==
    Cardinality({i \in 1..Len(added) :
        added[i].kind = "TEXTBOX" /\ added[i].paras[1].text = c.caption}) = 1

\* C8 (as claimed): every _try_add_image call appends exactly one caption text
\* box, last, with the image box's x and width, at y + h + 0.1in, carrying
\* the caption; it adds 2 shapes when the path exists and 3 when it does not.
C8_AlwaysCaption ==
    [][\A c \in ImageCalls :
         (pc = c.at /\ pc' # pc) =>
             LET old == LastShapes(prs)
                 new == LastShapes(prs')
             IN  /\ Len(new) = Len(old) + (IF imgs[c.filename] # "absent" THEN 2 ELSE 3)
                 /\ EndsWithCaption(new, c)]_vars

\* C8 (amended): every _try_add_image call that returns has appended exactly
\* one caption text box, last, with the image box's x and width, at
\* y + h + 0.1in, carrying the caption: 2 shapes in all when a readable image
\* is at the path and 3 when nothing is there, the earlier shapes untouched.
\* A call whose path holds something that is no readable image raises and
\* adds nothing; no other call raises.
C8_CaptionWhenReturns ==
    [][\A c \in ImageCalls :
         pc = c.at =>
             LET old == LastShapes(prs)
                 new == LastShapes(prs')
             IN  /\ imgs[c.filename] = "image" =>
                        /\ pc' = c.next
                        /\ Len(new) = Len(old) + 2
                        /\ IsPicture(new[Len(old) + 1])
                 /\ imgs[c.filename] = "absent" =>
                        /\ pc' = c.next
                        /\ Len(new) = Len(old) + 3
                        /\ IsPlaceholderBox(new[Len(old) + 1])
                 /\ imgs[c.filename] = "other" =>
                        pc' = "failed" /\ exc' = c.at /\ prs' = prs
                 /\ pc' = c.next =>
                        /\ SubSeq(new, 1, Len(old)) = old
                        /\ EndsWithCaption(new, c)
                        /\ OneCaption(SubSeq(new, Len(old) + 1, Len(new)), c)]_vars

\* both calls of slide 3 have returned, the first through the picture branch
\* and the second through the placeholder branch
C8_Witness ==
    /\ pc = "s3note"
    /\ imgs["01_tree_fixed.png"] = "image" /\ imgs["04_network_error_before.png"] = "absent"
    /\ Len(LastShapes(prs)) = 3 + 2 + 3

-----------------------------------------------------------------------------
\* the text box the _add_bullets call under test added
BulletBox == LastShapes(prs)[Len(LastShapes(prs))]

BulletStyled(p, b) ==
    p.text = b /\ p.level = 0 /\ p.size = Pt(18) /\ p.color = INK

\* C9 (as claimed): for every finite sequence of bullet strings, the empty
\* one included, _add_bullets adds one text box holding exactly as many
\* paragraphs as input strings, in input order, each level 0, 18pt, ink.
C9_ParagraphPerBullet ==
    pc = "returned" =>
        /\ Len(LastShapes(prs)) = 1
        /\ BulletBox.kind = "TEXTBOX"
        /\ Len(BulletBox.paras) = Len(bulletsArg)
        /\ \A i \in 1..Len(bulletsArg) : BulletStyled(BulletBox.paras[i], bulletsArg[i])

\* C9 (amended): for every non-empty finite sequence of bullet strings,
\* _add_bullets adds one text box holding exactly as many paragraphs as input
\* strings, in input order, each level 0, 18pt, ink; for the empty sequence
\* the text box holds the single empty, unstyled paragraph clear() leaves.
C9_ParagraphPerBulletNonEmpty ==
    pc = "returned" =>
        /\ Len(LastShapes(prs)) = 1
        /\ BulletBox.kind = "TEXTBOX"
        /\ bulletsArg # <<>> =>
               /\ Len(BulletBox.paras) = Len(bulletsArg)
               /\ \A i \in 1..Len(bulletsArg) :
                      BulletStyled(BulletBox.paras[i], bulletsArg[i])
        /\ bulletsArg = <<>> => BulletBox.paras = <<EmptyPara>>

\* the call has returned for a list of several bullets, not all the same
C9_Witness ==
    /\ pc = "returned"
    /\ Len(bulletsArg) >= 2
    /\ bulletsArg[1] # bulletsArg[2]
    /\ Len(BulletBox.paras) = Len(bulletsArg)

-----------------------------------------------------------------------------
\* Comparing the deck a run is about to write (prs) with the deck the run
\* before left in the output file (outFile, written when the image files were
\* fileImgs).

\* the image files on which the two runs differ
Differing == {f \in Filenames : imgs[f] # fileImgs[f]}

\* stands for the content of an image box, picture or placeholder
SlotMark(s) == AutoShape("SLOT", s.x, s.y, s.w, s.h, NoColor, NoColor, 0)

PlaceholderNames(s, D) == \E f \in D : Contains(s.paras[1].text, f)

\* shapes with, for the files in D only, each picture of the file and each
\* placeholder box with its text naming the file replaced by the mark of its box
RECURSIVE Slots(_, _)
Slots(shapes, D) ==
    IF shapes = <<>> THEN <<>>
    ELSE LET s == Head(shapes)
         IN  IF IsPicture(s) /\ PathName(s.image) \in D
             THEN <<SlotMark(s)>> \o Slots(Tail(shapes), D)
             ELSE IF /\ IsPlaceholderBox(s)
                     /\ Len(shapes) >= 2
                     /\ IsPlaceholderText(shapes[2])
                     /\ PlaceholderNames(shapes[2], D)
                  THEN <<SlotMark(s)>> \o Slots(Tail(Tail(shapes)), D)
                  ELSE <<s>> \o Slots(Tail(shapes), D)

\* the deck about to be written against the deck the run before wrote
C10_SlotsIndependent ==
    (pc = "save" /\ outFile # <<>>) =>
        /\ Len(prs.slides) = Len(outFile.slides)
        /\ prs.slide_width = outFile.slide_width
        /\ prs.slide_height = outFile.slide_height
        /\ \A i \in 1..Len(prs.slides) :
               LET new == prs.slides[i]
                   old == outFile.slides[i]
                   gone == {f \in Differing : DesignatedSlide(f) = i /\ imgs[f] = "absent"}
                   come == {f \in Differing : DesignatedSlide(f) = i /\ imgs[f] = "image"}
               IN  /\ new.bg = old.bg
                   /\ i \notin {3, 6} => new = old
                   /\ Slots(new.shapes, Differing) = Slots(old.shapes, Differing)
                   /\ Len(new.shapes) - Len(old.shapes)
                          = Cardinality(gone) - Cardinality(come)
                   /\ Cardinality(gone) + Cardinality(come)
                          = Cardinality({f \in Differing : DesignatedSlide(f) = i})

\* no step of a running process changes what is at the image paths
C10_ImagesOnlyRead == [][pc \notin Terminal => imgs' = imgs]_vars

\* C10: the presence or absence of an image file affects only its own slot.
\* For two runs that differ only in which image files exist, slides 1, 2, 4,
\* 5, 7, 8 and 9 are identical; slides 3 and 6 are identical except that, for
\* each differing image, one picture stands where the other deck has one
\* placeholder box plus one placeholder text box, so the shape count of the
\* slide differs by exactly 1 per differing image; and no step of the script
\* changes what is at the image paths.
C10_OwnSlotOnly == []C10_SlotsIndependent /\ C10_ImagesOnlyRead

\* the second run is about to overwrite a deck written with other image files:
\* one slot of slide 3 went from picture to placeholder, one slot of slide 6
\* from placeholder to picture, the other two slots did not change
C10_Witness ==
    /\ pc = "save" /\ outFile # <<>>
    /\ fileImgs["01_tree_fixed.png"] = "image" /\ imgs["01_tree_fixed.png"] = "absent"
    /\ fileImgs["02_audio_upload_fixed.png"] = "absent" /\ imgs["02_audio_upload_fixed.png"] = "image"
    /\ fileImgs["03_settings_simplified.png"] = imgs["03_settings_simplified.png"]
    /\ fileImgs["04_network_error_before.png"] = imgs["04_network_error_before.png"]
    /\ Len(prs.slides[3].shapes) = Len(outFile.slides[3].shapes) + 1
    /\ Len(prs.slides[6].shapes) = Len(outFile.slides[6].shapes) - 1

====
